---- MODULE Spec2Model ----
(***************************************************************************)
(* Model of assets/service_skeleton_test/main.cpp: a Windows service       *)
(* skeleton.  Three flows of control exist:                                *)
(*   - main, which calls StartServiceCtrlDispatcher and then returns 0;    *)
(*   - ServiceMain, started by the dispatcher on a thread of its own;      *)
(*   - ServiceCtrlHandler, called by the dispatcher (on main's thread)     *)
(*     once per control signal, after the handler has been registered.     *)
(* Every source line that reads or writes the shared globals is one step,  *)
(* so that all interleavings of the unsynchronised accesses are explored.  *)
(*                                                                         *)
(* Host (service control manager) behaviour, as documented for the API:    *)
(*   - StartServiceCtrlDispatcher either fails at once (the process was    *)
(*     not started by the service manager) or runs ServiceMain on a new    *)
(*     thread and returns once the service has entered SERVICE_STOPPED,    *)
(*     that is, once a SetServiceStatus call with a valid handle has       *)
(*     reported SERVICE_STOPPED;                                           *)
(*   - RegisterServiceCtrlHandler returns a valid handle or 0;             *)
(*   - control signals are delivered one at a time, any code, at any time  *)
(*     after a successful registration while the dispatcher is running;    *)
(*   - returning from main ends the process with all of its threads.       *)
(***************************************************************************)
EXTENDS Integers, Sequences, FiniteSets, TLC

\* ---------------------------------------------------------------- bounds
\* Number of control signals the host delivers in one execution.
MaxDeliveries == 3

\* ------------------------------------------------- constants of windows.h
SERVICE_STOPPED == 1
SERVICE_RUNNING == 4
SERVICE_CONTROL_STOP == 1
SERVICE_WIN32_OWN_PROCESS == 16
SERVICE_ACCEPT_STOP == 1

\* Value of the zero-initialised globals (no handle, no state, no flags).
ZeroInit == 0

\* Control codes the host may deliver: STOP (1), INTERROGATE (4), SHUTDOWN (5).
CtrlCodes == {SERVICE_CONTROL_STOP, 4, 5}

\* Results of RegisterServiceCtrlHandler: 0 on failure, a valid handle (1).
RegisterResults == {ZeroInit, 1}

VARIABLES
    serviceStatus,        \* the global SERVICE_STATUS record
    serviceStatusHandle,  \* the global SERVICE_STATUS_HANDLE
    mainPc,               \* position of main
    smPc,                 \* position of ServiceMain
    hPc,                  \* position of ServiceCtrlHandler
    ctrlCode,             \* argument of the running ServiceCtrlHandler call
    reports,              \* SetServiceStatus calls made so far, in order
    exitCode,             \* value returned by main, -1 while it has not
    dispatcherOk,         \* whether StartServiceCtrlDispatcher succeeded
    delivered,            \* number of control signals delivered so far
    hist                  \* history of the execution (observation only)

vars == <<serviceStatus, serviceStatusHandle, mainPc, smPc, hPc, ctrlCode,
          reports, exitCode, dispatcherOk, delivered, hist>>

\* Positions: the number is the source line the thread executes next.
MainPcs == {"l37", "dispatcher", "l38", "exited"}
SmPcs == {"notStarted", "l14", "l19", "l20", "l21", "l23", "l26", "l27", "returned"}
HPcs == {"idle", "l7", "l8", "l9"}

\* The process runs until main has returned.
ProcessAlive == mainPc # "exited"

\* ------------------------------------------------------- pure fragments
\* Line 7: the only control code the handler acts on.
HandlerAcceptsShutdownToo(code) == code \in {SERVICE_CONTROL_STOP, 5}
HandlerAccepts(code) == code = SERVICE_CONTROL_STOP

\* Line 8: the state the handler stores.
HandlerStoresRunning == SERVICE_RUNNING
HandlerStoredState == SERVICE_STOPPED

\* Line 26: the loop condition.
LoopConditionInverted(state) == state # SERVICE_RUNNING
LoopCondition(state) == state = SERVICE_RUNNING

\* Line 38: the value main returns.
MainReturnValueNonZeroOnFailure(ok) == IF ok THEN 0 ELSE 1
MainReturnValue(ok) == 0

\* A SetServiceStatus call: who made it, with which handle, and a snapshot
\* of the record passed by pointer.
Report(who) == [by |-> who, handle |-> serviceStatusHandle, status |-> serviceStatus]

\* The host has seen the service enter SERVICE_STOPPED.
ServiceStoppedAtHost ==
    \E i \in 1..Len(reports) :
        /\ reports[i].handle # ZeroInit
        /\ reports[i].status.dwCurrentState = SERVICE_STOPPED

\* ----------------------------------------------------------------- Init
Init ==
    /\ serviceStatus = [dwServiceType |-> ZeroInit,
                        dwCurrentState |-> ZeroInit,
                        dwControlsAccepted |-> ZeroInit]
    /\ serviceStatusHandle = ZeroInit
    /\ mainPc = "l37"
    /\ smPc = "notStarted"
    /\ hPc = "idle"
    /\ ctrlCode = ZeroInit
    /\ reports = <<>>
    /\ exitCode = -1
    /\ dispatcherOk = FALSE
    /\ delivered = 0
    /\ hist = [stopDelivered |-> FALSE,     \* a Stop signal was delivered
               stopsDelivered |-> 0,        \* number of Stop signals delivered
               stopAfterReport |-> FALSE,   \* ... after ServiceMain's report
               stopWrites |-> 0,            \* executions of line 8
               stopWritesAfterRunning |-> 0,\* ... after line 20 was executed
               smWrites |-> 0,              \* executions of line 20
               observedStopped |-> FALSE,   \* the loop saw a state # Running
               writesAfterObserved |-> 0]   \* stores to dwCurrentState since

\* ----------------------------------------------------------------- main
\* Line 37, success: the dispatcher connects to the service manager and
\* starts ServiceMain on a new thread.
StartDispatcherOk ==
    /\ mainPc = "l37"
    /\ mainPc' = "dispatcher"
    /\ smPc' = "l14"
    /\ dispatcherOk' = TRUE
    /\ UNCHANGED <<serviceStatus, serviceStatusHandle, hPc, ctrlCode, reports,
                   exitCode, delivered, hist>>

\* Line 37, failure: the call returns at once, ServiceMain never runs.
StartDispatcherFail ==
    /\ mainPc = "l37"
    /\ mainPc' = "l38"
    /\ dispatcherOk' = FALSE
    /\ UNCHANGED <<serviceStatus, serviceStatusHandle, smPc, hPc, ctrlCode,
                   reports, exitCode, delivered, hist>>

\* Line 37 returns: the service has entered SERVICE_STOPPED and the
\* dispatcher thread is not inside the handler.
DispatcherReturn ==
    /\ mainPc = "dispatcher"
    /\ hPc = "idle"
    /\ ServiceStoppedAtHost
    /\ mainPc' = "l38"
    /\ UNCHANGED <<serviceStatus, serviceStatusHandle, smPc, hPc, ctrlCode,
                   reports, exitCode, dispatcherOk, delivered, hist>>

\* Line 38: return 0, which ends the process.
MainReturn ==
    /\ mainPc = "l38"
    /\ mainPc' = "exited"
    /\ exitCode' = MainReturnValue(dispatcherOk)
    /\ UNCHANGED <<serviceStatus, serviceStatusHandle, smPc, hPc, ctrlCode,
                   reports, dispatcherOk, delivered, hist>>

\* ---------------------------------------------------------- ServiceMain
\* Lines 14-17: the result of the registration is stored unchecked.
SM_Register ==
    /\ ProcessAlive
    /\ smPc = "l14"
    /\ \E h \in RegisterResults : serviceStatusHandle' = h
    /\ smPc' = "l19"
    /\ UNCHANGED <<serviceStatus, mainPc, hPc, ctrlCode, reports, exitCode,
                   dispatcherOk, delivered, hist>>

\* Line 19.
SM_SetType ==
    /\ ProcessAlive
    /\ smPc = "l19"
    /\ serviceStatus' = [serviceStatus EXCEPT !.dwServiceType = SERVICE_WIN32_OWN_PROCESS]
    /\ smPc' = "l20"
    /\ UNCHANGED <<serviceStatusHandle, mainPc, hPc, ctrlCode, reports, exitCode,
                   dispatcherOk, delivered, hist>>

\* Line 20.
SM_SetRunning ==
    /\ ProcessAlive
    /\ smPc = "l20"
    /\ serviceStatus' = [serviceStatus EXCEPT !.dwCurrentState = SERVICE_RUNNING]
    /\ smPc' = "l21"
    /\ hist' = [hist EXCEPT !.smWrites = @ + 1,
                            !.writesAfterObserved =
                                IF hist.observedStopped THEN @ + 1 ELSE @]
    /\ UNCHANGED <<serviceStatusHandle, mainPc, hPc, ctrlCode, reports, exitCode,
                   dispatcherOk, delivered>>

\* Line 21.
SM_SetControls ==
    /\ ProcessAlive
    /\ smPc = "l21"
    /\ serviceStatus' = [serviceStatus EXCEPT !.dwControlsAccepted = SERVICE_ACCEPT_STOP]
    /\ smPc' = "l23"
    /\ UNCHANGED <<serviceStatusHandle, mainPc, hPc, ctrlCode, reports, exitCode,
                   dispatcherOk, delivered, hist>>

\* Line 23.
SM_Report ==
    /\ ProcessAlive
    /\ smPc = "l23"
    /\ reports' = Append(reports, Report("ServiceMain"))
    /\ smPc' = "l26"
    /\ UNCHANGED <<serviceStatus, serviceStatusHandle, mainPc, hPc, ctrlCode,
                   exitCode, dispatcherOk, delivered, hist>>

\* Line 26: one evaluation of the loop condition.
SM_LoopCheck ==
    /\ ProcessAlive
    /\ smPc = "l26"
    /\ IF LoopCondition(serviceStatus.dwCurrentState)
          THEN /\ smPc' = "l27"
               /\ hist' = hist
          ELSE /\ smPc' = "returned"
               /\ hist' = [hist EXCEPT !.observedStopped = TRUE]
    /\ UNCHANGED <<serviceStatus, serviceStatusHandle, mainPc, hPc, ctrlCode,
                   reports, exitCode, dispatcherOk, delivered>>

\* Line 27: Sleep(1000) returns.
SM_Sleep ==
    /\ ProcessAlive
    /\ smPc = "l27"
    /\ smPc' = "l26"
    /\ UNCHANGED <<serviceStatus, serviceStatusHandle, mainPc, hPc, ctrlCode,
                   reports, exitCode, dispatcherOk, delivered, hist>>

\* --------------------------------------------------- ServiceCtrlHandler
\* Line 6: the host calls the registered handler with a control code.
H_Deliver ==
    /\ mainPc = "dispatcher"
    /\ hPc = "idle"
    /\ smPc \notin {"notStarted", "l14"}
    /\ serviceStatusHandle # ZeroInit
    /\ delivered < MaxDeliveries
    /\ \E c \in CtrlCodes :
          /\ ctrlCode' = c
          /\ hist' = [hist EXCEPT
                 !.stopDelivered = @ \/ c = SERVICE_CONTROL_STOP,
                 !.stopsDelivered = IF c = SERVICE_CONTROL_STOP THEN @ + 1 ELSE @,
                 !.stopAfterReport = @ \/ (c = SERVICE_CONTROL_STOP
                                           /\ smPc \in {"l26", "l27"})]
    /\ hPc' = "l7"
    /\ delivered' = delivered + 1
    /\ UNCHANGED <<serviceStatus, serviceStatusHandle, mainPc, smPc, reports,
                   exitCode, dispatcherOk>>

\* Line 7.
H_Check ==
    /\ ProcessAlive
    /\ hPc = "l7"
    /\ hPc' = IF HandlerAccepts(ctrlCode) THEN "l8" ELSE "idle"
    /\ UNCHANGED <<serviceStatus, serviceStatusHandle, mainPc, smPc, ctrlCode,
                   reports, exitCode, dispatcherOk, delivered, hist>>

\* Line 8.
H_SetStopped ==
    /\ ProcessAlive
    /\ hPc = "l8"
    /\ serviceStatus' = [serviceStatus EXCEPT !.dwCurrentState = HandlerStoredState]
    /\ hPc' = "l9"
    /\ hist' = [hist EXCEPT
           !.stopWrites = @ + 1,
           !.stopWritesAfterRunning = IF hist.smWrites > 0 THEN @ + 1 ELSE @,
           !.writesAfterObserved = IF hist.observedStopped THEN @ + 1 ELSE @]
    /\ UNCHANGED <<serviceStatusHandle, mainPc, smPc, ctrlCode, reports, exitCode,
                   dispatcherOk, delivered>>

\* Lines 9-11.
H_Report ==
    /\ ProcessAlive
    /\ hPc = "l9"
    /\ reports' = Append(reports, Report("ServiceCtrlHandler"))
    /\ hPc' = "idle"
    /\ UNCHANGED <<serviceStatus, serviceStatusHandle, mainPc, smPc, ctrlCode,
                   exitCode, dispatcherOk, delivered, hist>>

\* ------------------------------------------------------------ the system
Next ==
    \/ StartDispatcherOk
    \/ StartDispatcherFail
    \/ DispatcherReturn
    \/ MainReturn
    \/ SM_Register
    \/ SM_SetType
    \/ SM_SetRunning
    \/ SM_SetControls
    \/ SM_Report
    \/ SM_LoopCheck
    \/ SM_Sleep
    \/ H_Deliver
    \/ H_Check
    \/ H_SetStopped
    \/ H_Report

Spec == Init /\ [][Next]_vars

TypeOK ==
    /\ serviceStatus.dwCurrentState \in {ZeroInit, SERVICE_RUNNING, SERVICE_STOPPED}
    /\ serviceStatusHandle \in RegisterResults
    /\ mainPc \in MainPcs
    /\ smPc \in SmPcs
    /\ hPc \in HPcs
    /\ delivered \in 0..MaxDeliveries
    /\ Len(reports) <= 1 + MaxDeliveries

\* ================================================================ claims

\* C1: once the handler has stored Stopped for a delivered Stop signal,
\* the next evaluation of the loop condition observes it and leaves the
\* loop; no Stop is lost.  Stated for every evaluation of line 26 that
\* follows an execution of line 8.
C1_StopNeverLost ==
    [][(smPc = "l26" /\ smPc' # "l26" /\ hist.stopWrites > 0)
          => smPc' = "returned"]_vars

\* C2 as stated: after the loop has observed Stopped, line 8 and line 20
\* are never executed again (no store to dwCurrentState).
C2_NoWriteAfterObserved == hist.writesAfterObserved = 0

\* C2 as amended: once the loop has observed Stopped, ServiceMain has left
\* the loop and dwCurrentState is Stopped and stays Stopped; stores that
\* follow (further Stop signals) store the same value.
C2_StoppedIsFinalAfterObserved ==
    hist.observedStopped =>
        /\ smPc = "returned"
        /\ serviceStatus.dwCurrentState = SERVICE_STOPPED

\* C2 witness: the loop has observed Stopped and a later Stop signal has
\* stored dwCurrentState once more.
C2_Witness ==
    /\ hist.observedStopped
    /\ hist.writesAfterObserved > 0
    /\ hPc = "idle"

\* C3: the first status report of ServiceMain carries currentState =
\* Running and controlsAccepted including Stop.
C3_FirstReportIsRunning ==
    \A i \in 1..Len(reports) :
        reports[i].by = "ServiceMain" =>
            /\ reports[i].status.dwCurrentState = SERVICE_RUNNING
            /\ reports[i].status.dwControlsAccepted = SERVICE_ACCEPT_STOP

\* C4: a handler call for a control code other than Stop leaves the whole
\* status record unchanged and issues no status report, in each of its
\* steps.
C4_NonStopIsNoOp ==
    [][(hPc # "idle" /\ ctrlCode # SERVICE_CONTROL_STOP /\ hPc' # hPc)
          => /\ hPc' = "idle"
             /\ UNCHANGED <<serviceStatus, reports>>]_vars

\* C4 witness: a handler call for a code other than Stop is in progress
\* while the service is running.
C4_Witness ==
    /\ hPc = "l7"
    /\ ctrlCode # SERVICE_CONTROL_STOP
    /\ smPc = "l27"

\* C5: once ServiceMain has written Running, every Stop handled afterwards
\* leaves currentState = Stopped, however many there are (the handler has
\* no failing step: each call runs lines 7-9 and returns).
C5_StopIdempotent ==
    hist.stopWritesAfterRunning > 0 =>
        serviceStatus.dwCurrentState = SERVICE_STOPPED

\* C5 witness: two Stop signals were handled after Running was written and
\* the second handler call has returned.
C5_Witness ==
    /\ hist.stopWritesAfterRunning >= 2
    /\ hPc = "idle"
    /\ Len(reports) >= 3

\* C6: after a failed registration ServiceMain does not enter the idle
\* loop.
C6_NoLoopAfterFailedRegistration ==
    (smPc \notin {"notStarted", "l14"} /\ serviceStatusHandle = ZeroInit)
        => smPc \notin {"l26", "l27", "returned"}

\* C7: whenever main has returned, the exit code is 0.
C7_ExitCodeZero == mainPc = "exited" => exitCode = 0

\* C7 witness: main has returned after a successful registration and a
\* Stop signal.
C7_Witness ==
    /\ mainPc = "exited"
    /\ dispatcherOk
    /\ serviceStatusHandle # ZeroInit
    /\ hist.stopDelivered

\* C8: every status report the handler issues carries currentState =
\* Stopped.
C8_HandlerReportsStopped ==
    \A i \in 1..Len(reports) :
        reports[i].by = "ServiceCtrlHandler" =>
            reports[i].status.dwCurrentState = SERVICE_STOPPED

\* C9: after a successful registration and a Stop signal delivered after
\* the Running report, the process does not end without the loop having
\* exited and ServiceMain having returned.  (When main has returned the
\* execution is over, so this is what the eventuality comes to.)
C9_ProcessEndsAfterServiceMainReturns ==
    (mainPc = "exited" /\ serviceStatusHandle # ZeroInit /\ hist.stopAfterReport)
        => smPc = "returned"

\* C10: ServiceMain writes currentState once, before the loop; the loop
\* (lines 26-27) never changes the status record; only the handler makes
\* the state Stopped; and while no Stop signal has been delivered the loop
\* has not exited.
C10_LoopOnlyReads ==
    /\ [](hist.smWrites <= 1)
    /\ [](hist.smWrites = 1 => smPc \notin {"notStarted", "l14", "l19", "l20"})
    /\ [](~hist.stopDelivered => smPc # "returned")
    /\ [][(smPc \in {"l26", "l27"} /\ smPc' # smPc)
             => UNCHANGED serviceStatus]_vars
    /\ [][(serviceStatus.dwCurrentState # SERVICE_STOPPED
           /\ serviceStatus'.dwCurrentState = SERVICE_STOPPED)
             => (hPc = "l8" /\ hPc' = "l9")]_vars

\* C10 witness: the loop is sleeping in state Running after signals other
\* than Stop have been delivered and none of them was a Stop.
C10_Witness ==
    /\ smPc = "l27"
    /\ ~hist.stopDelivered
    /\ delivered = MaxDeliveries
    /\ hPc = "idle"
    /\ serviceStatus.dwCurrentState = SERVICE_RUNNING

\* C11: with a successful registration and exactly one Stop signal, which
\* was delivered after the Running report, once the handler has finished
\* with it currentState has been stored exactly twice (line 20, then line
\* 8) and exactly two status reports exist: Running, then Stopped.
C11_NominalPathTwoWritesTwoReports ==
    (/\ serviceStatusHandle # ZeroInit
     /\ hist.stopsDelivered = 1
     /\ hist.stopAfterReport
     /\ (hPc = "idle" \/ ctrlCode # SERVICE_CONTROL_STOP))
        => /\ hist.smWrites = 1
           /\ hist.stopWrites = 1
           /\ Len(reports) = 2
           /\ reports[1].by = "ServiceMain"
           /\ reports[1].status.dwCurrentState = SERVICE_RUNNING
           /\ reports[2].by = "ServiceCtrlHandler"
           /\ reports[2].status.dwCurrentState = SERVICE_STOPPED

\* C11 witness: the nominal path has run to its end, other signals
\* included: one Stop after the Running report, handled, the loop has
\* exited and main has returned.
C11_Witness ==
    /\ serviceStatusHandle # ZeroInit
    /\ hist.stopsDelivered = 1
    /\ hist.stopAfterReport
    /\ delivered = MaxDeliveries
    /\ hPc = "idle"
    /\ smPc = "returned"
    /\ mainPc = "exited"

\* C12: every status report is issued with a valid handle.
C12_ReportsUseValidHandle ==
    \A i \in 1..Len(reports) : reports[i].handle # ZeroInit

\* C13: the reported states are monotonic: no report announcing Running
\* follows a report announcing Stopped.
C13_NoRunningAfterStoppedReport ==
    \A i, j \in 1..Len(reports) :
        (i < j /\ reports[i].status.dwCurrentState = SERVICE_STOPPED)
            => reports[j].status.dwCurrentState # SERVICE_RUNNING

\* C14: when the loop has exited and ServiceMain has returned, a report
\* announcing Stopped has been issued.
C14_StoppedReportedBeforeReturn ==
    smPc = "returned" =>
        \E i \in 1..Len(reports) :
            reports[i].status.dwCurrentState = SERVICE_STOPPED

\* C15: every status report carries serviceType = own process and
\* controlsAccepted = {Stop}.
C15_ReportsFullyInitialised ==
    \A i \in 1..Len(reports) :
        /\ reports[i].status.dwServiceType = SERVICE_WIN32_OWN_PROCESS
        /\ reports[i].status.dwControlsAccepted = SERVICE_ACCEPT_STOP

====
